---------------------------- MODULE Spec2Model ----------------------------
(***************************************************************************)
(* A model of the PubMed RAG repository:                                   *)
(*   - chunk_text and create_new_vector_store       (src/main.py)          *)
(*   - PubMedRAG.initialize / query / query_stream  (src/rag/rag_pipeline.py) *)
(* Four specifications share the module: SpecChunk (the chunker as a pure  *)
(* function over bounded inputs), SpecIngest (one ingestion run), SpecRag  *)
(* (one orchestrator from construction, and the calls made on it) and      *)
(* SpecStream (query_stream calls on an orchestrator initialized once).    *)
(* The agent graph, the LLM, the embedder and the vector store are         *)
(* collaborators outside the repository: what they return or raise is      *)
(* chosen nondeterministically among the outcomes the code provides for.   *)
(***************************************************************************)
EXTENDS Integers, Sequences, FiniteSets, TLC

VARIABLES
    \* ---- chunk_text called on its own (SpecChunk)
    text, chunk_size, overlap, chunks, cpc,
    \* ---- create_new_vector_store (SpecIngest)
    documents, doc_i, doc_chunks, idx, data, batch_size, i_batch, index,
    attempted, embed_failed, ipc,
    \* ---- PubMedRAG (SpecRag)
    llm, rag_chain, supabase_vs_retriever, init_calls,
    op, question, limit, steps, node, chunk_keys, stream_chunk, session,
    limit_reached, agent_result, prompts, yielded, response_content, outcome, error

chunk_vars  == <<text, chunk_size, overlap, chunks, cpc>>
ingest_vars == <<documents, doc_i, doc_chunks, idx, data, batch_size, i_batch, index,
                 attempted, embed_failed, ipc>>
call_vars   == <<op, question, limit, steps, node, chunk_keys, stream_chunk, session,
                 limit_reached, agent_result, prompts, yielded, response_content, outcome, error>>
obj_vars    == <<llm, rag_chain, supabase_vs_retriever, init_calls>>
rag_vars    == <<obj_vars, call_vars>>
vars        == <<chunk_vars, ingest_vars, rag_vars>>

-----------------------------------------------------------------------------
(* Bounds of the model *)

\* longest text over {letter, blank} given to chunk_text on its own
MaxTextLen == 4
\* largest chunk_size given to chunk_text on its own
MaxChunkSize == 4
\* most documents load_pubmed_data returns in an ingestion run
MaxDocs == 2
\* chunk_text's window and overlap during ingestion (the defaults 5000 and
\* 100 of src/main.py:28, scaled to the lengths of the model's documents)
IngestChunkSize == 3
IngestOverlap == 1
\* a batch size small enough for the model's runs to need several batches
SmallBatch == 4
\* most fragments one llm.stream response delivers
MaxFragments == 2
\* most initialize() calls made on the orchestrator
MaxInits == 2

-----------------------------------------------------------------------------
(* Helpers *)

Min(a, b) == IF a <= b THEN a ELSE b
Max(a, b) == IF a >= b THEN a ELSE b

\* ceil(a / b) for b > 0, any integer a
CeilDiv(a, b) == -((-a) \div b)

\* Python's s[a:b] for 0 <= a <= b (0-based, end exclusive, clipped)
Slice(s, a, b) == SubSeq(s, a + 1, Min(b, Len(s)))

\* str.strip(): the chunk with leading and trailing whitespace removed
IsSpace(c) == c = " "

RECURSIVE lstrip(_)
lstrip(s) == IF s # <<>> /\ IsSpace(Head(s)) THEN lstrip(Tail(s)) ELSE s

RECURSIVE rstrip(_)
rstrip(s) == IF s # <<>> /\ IsSpace(s[Len(s)])
             THEN rstrip(SubSeq(s, 1, Len(s) - 1)) ELSE s

strip(s) == rstrip(lstrip(s))

\* sequences over S of length 0..n
RECURSIVE SeqsUpTo(_, _)
SeqsUpTo(S, n) ==
    IF n = 0 THEN {<<>>}
    ELSE LET shorter == SeqsUpTo(S, n - 1)
         IN  shorter \cup {Append(s, x) : s \in {t \in shorter : Len(t) = n - 1}, x \in S}

RECURSIVE Concat(_)
Concat(ss) == IF ss = <<>> THEN <<>> ELSE Head(ss) \o Concat(Tail(ss))

-----------------------------------------------------------------------------
(* chunk_text, src/main.py:28-43 *)

\* the body of `for i in range(0, text_length, chunk_size - overlap)` from
\* loop value k on: the window text[k : k + chunk_size] is kept when it is
\* not empty after strip()
\* the loop with the strip() test left out: blank windows are kept
RECURSIVE chunk_loop_keep_blank(_, _, _, _)
chunk_loop_keep_blank(t, k, size, ov) ==
    IF k >= Len(t) THEN <<>>
    ELSE <<Slice(t, k, k + size)>> \o chunk_loop_keep_blank(t, k + (size - ov), size, ov)

RECURSIVE chunk_loop(_, _, _, _)
chunk_loop(t, k, size, ov) ==
    IF k >= Len(t) THEN <<>>
    ELSE LET chunk == Slice(t, k, k + size)
         IN  (IF strip(chunk) # <<>> THEN <<chunk>> ELSE <<>>)
             \o chunk_loop(t, k + (size - ov), size, ov)

\* the loop stepping by chunk_size, the overlap forgotten
chunk_text_no_overlap(t, size, ov) == chunk_loop(t, 0, size, 0)

chunk_text(t, size, ov) == chunk_loop(t, 0, size, ov)

\* the spec's worked example
ExampleText == <<"A", "B", "C", "D", "E", "F", "G", "H", "I", "J">>

ChunkTexts == SeqsUpTo({"a", " "}, MaxTextLen) \cup {ExampleText}

InitChunk ==
    /\ text \in ChunkTexts
    /\ chunk_size \in 1..MaxChunkSize
    /\ overlap \in 0..(chunk_size - 1)
    /\ chunks = <<>>
    /\ cpc = "call"

ChunkText ==
    /\ cpc = "call"
    /\ chunks' = chunk_text(text, chunk_size, overlap)
    /\ cpc' = "returned"
    /\ UNCHANGED <<text, chunk_size, overlap>>
    /\ UNCHANGED <<ingest_vars, rag_vars>>

-----------------------------------------------------------------------------
(* create_new_vector_store, src/main.py:93-129 *)

\* batch_size = 50
batch_size_default == 50

BatchSizes == {SmallBatch, batch_size_default}

DocIds == <<"d1", "d2", "d3", "d4">>

\* document contents: empty, blank, and texts the ingestion chunker cuts
\* into several windows
Contents == { <<>>,
              <<" ", " ">>,
              <<"a", "b", "c", "d", "e">>,
              <<"a", "b", "c", "d", "e", "f", "g", "h", "i">> }

\* what load_pubmed_data returns (src/data_loader/data_loader.py:19-34): a
\* list of documents, PMID a copy of the item's char_url, which may be
\* missing ("" stands for None and for the empty string); [] on any error
DocsAt(k) == { [id |-> DocIds[k], title |-> DocIds[k], content |-> c, PMID |-> p] :
               c \in Contents, p \in {"", DocIds[k]} }

DocLists == UNION { { d \in [1..n -> UNION {DocsAt(k) : k \in 1..n}] :
                        \A k \in 1..n : d[k] \in DocsAt(k) } : n \in 0..MaxDocs }

\* model.encode(chunk).tolist(): a vector fixed by the chunk
encode(chunk) == Len(chunk)

\* the record built at src/main.py:109-116
record(doc, k, chunk, n_chunks) ==
    [ title    |-> doc.title,
      pmid     |-> doc.PMID,
      content  |-> chunk,
      chunk_id |-> k,
      metadata |-> [original_id |-> doc.id, total_chunks |-> n_chunks],
      embedding |-> encode(chunk) ]

\* the chunks of a document during ingestion: chunk_text(doc["content"])
doc_chunk_text(doc) == chunk_text(doc.content, IngestChunkSize, IngestOverlap)

\* batch = data[i : i + batch_size]
batch_of_short(d, k, bs) == Slice(d, k, k + bs - 1)
batch_of(d, k, bs) == Slice(d, k, k + bs)

Elems(s) == { s[k] : k \in 1..Len(s) }

IdleIngest ==
    /\ documents = <<>>
    /\ doc_i = 1
    /\ doc_chunks = <<>>
    /\ idx = 0
    /\ data = <<>>
    /\ batch_size = batch_size_default
    /\ i_batch = 0
    /\ index = {}
    /\ attempted = <<>>
    /\ embed_failed = ""
    /\ ipc = "idle"

InitIngest ==
    /\ documents \in DocLists
    /\ doc_i = 1
    /\ doc_chunks = <<>>
    /\ idx = 0
    /\ data = <<>>
    /\ batch_size \in BatchSizes
    /\ i_batch = 0
    /\ index = {}
    /\ attempted = <<>>
    /\ embed_failed = ""
    /\ ipc = "docs"

\* `if not doc.get("PMID"): ... continue`
SkipDoc ==
    /\ ipc = "docs"
    /\ doc_i <= Len(documents)
    /\ documents[doc_i].PMID = ""
    /\ doc_i' = doc_i + 1
    /\ UNCHANGED <<documents, doc_chunks, idx, data, batch_size, i_batch, index,
                   attempted, embed_failed, ipc>>
    /\ UNCHANGED <<chunk_vars, rag_vars>>

\* `chunks = chunk_text(doc["content"])`, entering the loop over the chunks
ChunkDoc ==
    /\ ipc = "docs"
    /\ doc_i <= Len(documents)
    /\ documents[doc_i].PMID # ""
    /\ doc_chunks' = doc_chunk_text(documents[doc_i])
    /\ idx' = 0
    /\ ipc' = "embed"
    /\ UNCHANGED <<documents, doc_i, data, batch_size, i_batch, index,
                   attempted, embed_failed>>
    /\ UNCHANGED <<chunk_vars, rag_vars>>

\* one pass of `for idx, chunk in enumerate(chunks)`: encode succeeds and
\* the record is appended to data
EmbedChunk ==
    /\ ipc = "embed"
    /\ idx < Len(doc_chunks)
    /\ data' = Append(data, record(documents[doc_i], idx, doc_chunks[idx + 1],
                                   Len(doc_chunks)))
    /\ idx' = idx + 1
    /\ UNCHANGED <<documents, doc_i, doc_chunks, batch_size, i_batch, index,
                   attempted, embed_failed, ipc>>
    /\ UNCHANGED <<chunk_vars, rag_vars>>

\* model.encode(chunk) raises: no handler inside the loops, so the outer
\* `except Exception` (src/main.py:128) ends the function
EmbedFails ==
    /\ ipc = "embed"
    /\ idx < Len(doc_chunks)
    /\ embed_failed' = documents[doc_i].id
    /\ ipc' = "aborted"
    /\ UNCHANGED <<documents, doc_i, doc_chunks, idx, data, batch_size, i_batch,
                   index, attempted>>
    /\ UNCHANGED <<chunk_vars, rag_vars>>

\* the chunks of the document are exhausted: next document
NextDoc ==
    /\ ipc = "embed"
    /\ idx >= Len(doc_chunks)
    /\ doc_i' = doc_i + 1
    /\ ipc' = "docs"
    /\ UNCHANGED <<documents, doc_chunks, idx, data, batch_size, i_batch, index,
                   attempted, embed_failed>>
    /\ UNCHANGED <<chunk_vars, rag_vars>>

\* the documents are exhausted: `for i in range(0, len(data), batch_size)`
StartBatches ==
    /\ ipc = "docs"
    /\ doc_i > Len(documents)
    /\ i_batch' = 0
    /\ ipc' = "batches"
    /\ UNCHANGED <<documents, doc_i, doc_chunks, idx, data, batch_size, index,
                   attempted, embed_failed>>
    /\ UNCHANGED <<chunk_vars, rag_vars>>

\* the entry logged for a batch: its number i // batch_size + 1, its records
\* and whether the upsert went through
attempt(ok) ==
    [ no    |-> (i_batch \div batch_size) + 1,
      batch |-> batch_of(data, i_batch, batch_size),
      ok    |-> ok ]

\* upsert(batch).execute() returns
UpsertOk ==
    /\ ipc = "batches"
    /\ i_batch < Len(data)
    /\ index' = index \cup Elems(batch_of(data, i_batch, batch_size))
    /\ attempted' = Append(attempted, attempt(TRUE))
    /\ i_batch' = i_batch + batch_size
    /\ UNCHANGED <<documents, doc_i, doc_chunks, idx, data, batch_size,
                   embed_failed, ipc>>
    /\ UNCHANGED <<chunk_vars, rag_vars>>

\* a bug the per-batch handler rules out: the failure ends the loop
UpsertFailsAndStops ==
    /\ ipc = "batches"
    /\ i_batch < Len(data)
    /\ attempted' = Append(attempted, attempt(FALSE))
    /\ ipc' = "done"
    /\ UNCHANGED <<documents, doc_i, doc_chunks, idx, data, batch_size, i_batch,
                   index, embed_failed>>
    /\ UNCHANGED <<chunk_vars, rag_vars>>

\* upsert(batch).execute() raises: caught by the inner `except Exception`
\* (src/main.py:126), the loop goes on
UpsertFails ==
    /\ ipc = "batches"
    /\ i_batch < Len(data)
    /\ attempted' = Append(attempted, attempt(FALSE))
    /\ i_batch' = i_batch + batch_size
    /\ UNCHANGED <<documents, doc_i, doc_chunks, idx, data, batch_size, index,
                   embed_failed, ipc>>
    /\ UNCHANGED <<chunk_vars, rag_vars>>

\* range(0, len(data), batch_size) is exhausted: the function returns
FinishIngest ==
    /\ ipc = "batches"
    /\ i_batch >= Len(data)
    /\ ipc' = "done"
    /\ UNCHANGED <<documents, doc_i, doc_chunks, idx, data, batch_size, i_batch,
                   index, attempted, embed_failed>>
    /\ UNCHANGED <<chunk_vars, rag_vars>>

NextIngest ==
    \/ SkipDoc
    \/ ChunkDoc
    \/ EmbedChunk
    \/ EmbedFails
    \/ NextDoc
    \/ StartBatches
    \/ UpsertOk
    \/ UpsertFails
    \/ FinishIngest


-----------------------------------------------------------------------------
(* PubMedRAG, src/rag/rag_pipeline.py *)

\* RECURSION_LIMIT = 2 * 5 + 1
RECURSION_LIMIT == 2 * 5 + 1

\* the recursion limit of a graph run that is given no config: langgraph's
\* default, which rag_chain.invoke(...) at line 143 runs under
DEFAULT_RECURSION_LIMIT == 25

\* None
None == 0

Questions == {"q1"}

\* the two tools the agent is built with (lines 89-101)
Tools == {"my_retriever", "wikipedia_retriever"}

\* MyRetriever._get_relevant_documents reads the module's global
\* supabase_vs_retriever at call time; the wikipedia tool does not
tool_output(tool, k) ==
    IF tool = "my_retriever" THEN <<tool, supabase_vs_retriever, k>>
    ELSE <<tool, k>>

\* the shapes an agent result can have for _extract_tool_outputs: no
\* "intermediate_steps" key at all (the state of a langgraph agent holds
\* "messages" only), or steps in one of the two layouts the helper reads
ResultShapes == {"messages_only", "tool_io", "action_observation"}

result_of(shape, sess) ==
    IF shape = "messages_only"
    THEN [has_intermediate_steps |-> FALSE, layout |-> shape, intermediate_steps |-> <<>>]
    ELSE [has_intermediate_steps |-> TRUE, layout |-> shape, intermediate_steps |-> sess]

\* _extract_tool_outputs (lines 47-65): for every step a "Tool query" line
\* and a "Tool output" line, in order; nothing without "intermediate_steps"
RECURSIVE transcript(_)
transcript(stepseq) ==
    IF stepseq = <<>> THEN <<>>
    ELSE << <<"Tool query", Head(stepseq).tool_input>>,
            <<"Tool output", Head(stepseq).tool_output>> >>
         \o transcript(Tail(stepseq))

extract_tool_outputs(res) ==
    IF res.has_intermediate_steps THEN transcript(res.intermediate_steps) ELSE <<>>

\* the f-string of lines 148-154
summarization_prompt(q, collected_info) ==
    [question |-> q, collected_info |-> collected_info]

\* f"Error generating response: {str(e)}"
ErrorText(e) == [kind |-> "error", msg |-> e]
Fragment(k) == [kind |-> "text", n |-> k]

TextFragments(ys) == SelectSeq(ys, LAMBDA y : y.kind = "text")
ErrorFragments(ys) == SelectSeq(ys, LAMBDA y : y.kind = "error")

IdleCall ==
    /\ op = "none"
    /\ question = ""
    /\ limit = 0
    /\ steps = 0
    /\ node = "none"
    /\ chunk_keys = "none"
    /\ stream_chunk = "none"
    /\ session = <<>>
    /\ limit_reached = FALSE
    /\ agent_result = None
    /\ prompts = <<>>
    /\ yielded = <<>>
    /\ response_content = <<>>
    /\ outcome = "none"
    /\ error = ""

\* __init__ (lines 67-71) and the module's global (line 24)
InitRag ==
    /\ llm = None
    /\ rag_chain = None
    /\ supabase_vs_retriever = None
    /\ init_calls = 0
    /\ IdleCall

IdleRag == InitRag

\* the k-th initialize() builds fresh objects, named by k
\* initialize (lines 73-113), every step succeeding
Initialize ==
    /\ op = "none"
    /\ init_calls < MaxInits
    /\ init_calls' = init_calls + 1
    /\ supabase_vs_retriever' = init_calls + 1
    /\ llm' = IF llm = None THEN init_calls + 1 ELSE llm
    /\ rag_chain' = IF rag_chain = None THEN init_calls + 1 ELSE rag_chain
    /\ UNCHANGED call_vars
    /\ UNCHANGED <<chunk_vars, ingest_vars>>

\* initialize with create_llama_chat_model raising at line 104: the global
\* was assigned at line 85, llm and rag_chain stay None
InitializeFails ==
    /\ op = "none"
    /\ init_calls < MaxInits
    /\ llm = None
    /\ init_calls' = init_calls + 1
    /\ supabase_vs_retriever' = init_calls + 1
    /\ UNCHANGED <<llm, rag_chain>>
    /\ UNCHANGED call_vars
    /\ UNCHANGED <<chunk_vars, ingest_vars>>

\* query / query_stream on an orchestrator with no rag_chain: ValueError
CallUninitialized ==
    /\ op = "none"
    /\ rag_chain = None
    /\ \E o \in {"query", "query_stream"}, q \in Questions :
          /\ op' = o
          /\ question' = q
    /\ outcome' = "raised"
    /\ error' = "ValueError"
    /\ UNCHANGED <<limit, steps, node, chunk_keys, stream_chunk, session, limit_reached,
                   agent_result, prompts, yielded, response_content>>
    /\ UNCHANGED obj_vars
    /\ UNCHANGED <<chunk_vars, ingest_vars>>

\* the limit of query's graph run: {"recursion_limit": RECURSION_LIMIT}
query_limit == RECURSION_LIMIT
\* no config in query_stream's invoke
query_stream_limit == DEFAULT_RECURSION_LIMIT

\* what the chunks of rag_chain.stream are keyed by: "content", as line 128
\* reads them, or the name of the node that produced the update
ChunkKeys == {"content", "node"}

StartCall(o, lim) ==
    /\ op = "none"
    /\ rag_chain # None
    /\ op' = o
    /\ \E q \in Questions : question' = q
    /\ limit' = lim
    /\ steps' = 0
    /\ node' = "agent"
    /\ chunk_keys' \in IF o = "query" THEN ChunkKeys ELSE {"none"}
    /\ outcome' = "running"
    /\ UNCHANGED <<stream_chunk, session, limit_reached, agent_result, prompts,
                   yielded, response_content, error>>
    /\ UNCHANGED obj_vars
    /\ UNCHANGED <<chunk_vars, ingest_vars>>

\* query (line 127): rag_chain.stream(..., {"recursion_limit": RECURSION_LIMIT})
StartQuery == StartCall("query", query_limit)

\* query_stream (line 143): rag_chain.invoke({"messages": ...})
StartQueryStream == StartCall("query_stream", query_stream_limit)

\* a handler that returns the error text from the generator instead of
\* yielding it: the consumer sees no error fragment
CaughtReturns(e) ==
    /\ outcome' = "error"
    /\ error' = e
    /\ yielded' = yielded

\* what the `except Exception` handlers do (lines 131-133, 160-162): query
\* returns the error text, query_stream yields it as one more fragment
Caught(e) ==
    /\ outcome' = "error"
    /\ error' = e
    /\ yielded' = IF op = "query_stream" THEN Append(yielded, ErrorText(e)) ELSE yielded

\* in query every graph step hands one chunk to the loop body of line 128
chunk_after_step == IF op = "query" THEN "pending" ELSE "none"

CanStep ==
    /\ outcome = "running"
    /\ stream_chunk = "none"
    /\ steps < limit

\* the agent node: the LLM call fails
AgentLLMFails ==
    /\ CanStep
    /\ node = "agent"
    /\ Caught("LLMError")
    /\ UNCHANGED <<op, question, limit, steps, node, chunk_keys, stream_chunk, session,
                   limit_reached, agent_result, prompts, response_content>>
    /\ UNCHANGED obj_vars
    /\ UNCHANGED <<chunk_vars, ingest_vars>>

\* the agent node: the LLM declares the answer, the graph ends
AgentAnswers ==
    /\ CanStep
    /\ node = "agent"
    /\ steps' = steps + 1
    /\ node' = "end"
    /\ stream_chunk' = chunk_after_step
    /\ UNCHANGED <<op, question, limit, chunk_keys, session, limit_reached, agent_result,
                   prompts, yielded, response_content, outcome, error>>
    /\ UNCHANGED obj_vars
    /\ UNCHANGED <<chunk_vars, ingest_vars>>

\* the agent node: the LLM asks for a tool
AgentCallsTool ==
    /\ CanStep
    /\ node = "agent"
    /\ steps' = steps + 1
    /\ node' = "tools"
    /\ stream_chunk' = chunk_after_step
    /\ UNCHANGED <<op, question, limit, chunk_keys, session, limit_reached, agent_result,
                   prompts, yielded, response_content, outcome, error>>
    /\ UNCHANGED obj_vars
    /\ UNCHANGED <<chunk_vars, ingest_vars>>

\* the agent node on the last step the limit leaves, the LLM asking for a
\* tool: the prebuilt agent may answer that it needs more steps and end
AgentOutOfSteps ==
    /\ CanStep
    /\ node = "agent"
    /\ steps = limit - 1
    /\ steps' = steps + 1
    /\ node' = "end"
    /\ limit_reached' = TRUE
    /\ stream_chunk' = chunk_after_step
    /\ UNCHANGED <<op, question, limit, chunk_keys, session, agent_result,
                   prompts, yielded, response_content, outcome, error>>
    /\ UNCHANGED obj_vars
    /\ UNCHANGED <<chunk_vars, ingest_vars>>

\* the tools node: one tool invocation, its step appended to the session
ToolsNode ==
    /\ CanStep
    /\ node = "tools"
    /\ \E tool \in Tools :
          session' = Append(session,
                            [ tool        |-> tool,
                              tool_input  |-> Len(session) + 1,
                              tool_output |-> tool_output(tool, Len(session) + 1) ])
    /\ steps' = steps + 1
    /\ node' = "agent"
    /\ stream_chunk' = chunk_after_step
    /\ UNCHANGED <<op, question, limit, chunk_keys, limit_reached, agent_result,
                   prompts, yielded, response_content, outcome, error>>
    /\ UNCHANGED obj_vars
    /\ UNCHANGED <<chunk_vars, ingest_vars>>

\* the graph has work left and no step left: GraphRecursionError
GraphRecursionError ==
    /\ outcome = "running"
    /\ stream_chunk = "none"
    /\ node \in {"agent", "tools"}
    /\ steps = limit
    /\ limit_reached' = TRUE
    /\ Caught("GraphRecursionError")
    /\ UNCHANGED <<op, question, limit, steps, node, chunk_keys, stream_chunk, session,
                   agent_result, prompts, response_content>>
    /\ UNCHANGED obj_vars
    /\ UNCHANGED <<chunk_vars, ingest_vars>>

\* query, line 128: response_content += chunk["content"], the chunk
\* carrying a "content" key
ChunkContent ==
    /\ outcome = "running"
    /\ stream_chunk = "pending"
    /\ chunk_keys = "content"
    /\ response_content' = Append(response_content, steps)
    /\ stream_chunk' = "none"
    /\ UNCHANGED <<op, question, limit, steps, node, chunk_keys, session, limit_reached,
                   agent_result, prompts, yielded, outcome, error>>
    /\ UNCHANGED obj_vars
    /\ UNCHANGED <<chunk_vars, ingest_vars>>

\* query, line 128: the chunk is keyed by the node's name and has no
\* "content" key: KeyError, caught at line 131
ChunkKeyError ==
    /\ outcome = "running"
    /\ stream_chunk = "pending"
    /\ chunk_keys = "node"
    /\ stream_chunk' = "none"
    /\ Caught("KeyError")
    /\ UNCHANGED <<op, question, limit, steps, node, chunk_keys, session, limit_reached,
                   agent_result, prompts, response_content>>
    /\ UNCHANGED obj_vars
    /\ UNCHANGED <<chunk_vars, ingest_vars>>

\* query, line 130: the stream is exhausted, return response_content
QueryReturns ==
    /\ op = "query"
    /\ outcome = "running"
    /\ stream_chunk = "none"
    /\ node = "end"
    /\ outcome' = "ok"
    /\ UNCHANGED <<op, question, limit, steps, node, chunk_keys, stream_chunk, session,
                   limit_reached, agent_result, prompts, yielded,
                   response_content, error>>
    /\ UNCHANGED obj_vars
    /\ UNCHANGED <<chunk_vars, ingest_vars>>

\* the prompt query_stream composes from the agent's result
composed_prompt(q, res) == summarization_prompt(q, extract_tool_outputs(res))

\* query_stream, lines 143-157: invoke has returned; the transcript is
\* extracted, the prompt composed and given to llm.stream
Summarize ==
    /\ op = "query_stream"
    /\ outcome = "running"
    /\ node = "end"
    /\ \E shape \in ResultShapes :
          /\ agent_result' = result_of(shape, session)
          /\ prompts' = Append(prompts, composed_prompt(question, result_of(shape, session)))
    /\ node' = "summarizing"
    /\ UNCHANGED <<op, question, limit, steps, chunk_keys, stream_chunk, session, limit_reached,
                   yielded, response_content, outcome, error>>
    /\ UNCHANGED obj_vars
    /\ UNCHANGED <<chunk_vars, ingest_vars>>

\* query_stream, line 158: yield chunk.content
YieldFragment ==
    /\ op = "query_stream"
    /\ outcome = "running"
    /\ node = "summarizing"
    /\ Len(yielded) < MaxFragments
    /\ yielded' = Append(yielded, Fragment(Len(yielded) + 1))
    /\ UNCHANGED <<op, question, limit, steps, node, chunk_keys, stream_chunk, session,
                   limit_reached, agent_result, prompts, response_content,
                   outcome, error>>
    /\ UNCHANGED obj_vars
    /\ UNCHANGED <<chunk_vars, ingest_vars>>

\* llm.stream raises, at the request or between two fragments
SummaryFails ==
    /\ op = "query_stream"
    /\ outcome = "running"
    /\ node = "summarizing"
    /\ Caught("LLMError")
    /\ UNCHANGED <<op, question, limit, steps, node, chunk_keys, stream_chunk, session,
                   limit_reached, agent_result, prompts, response_content>>
    /\ UNCHANGED obj_vars
    /\ UNCHANGED <<chunk_vars, ingest_vars>>

\* llm.stream is exhausted: the generator ends
SummaryEnds ==
    /\ op = "query_stream"
    /\ outcome = "running"
    /\ node = "summarizing"
    /\ outcome' = "ok"
    /\ UNCHANGED <<op, question, limit, steps, node, chunk_keys, stream_chunk, session,
                   limit_reached, agent_result, prompts, yielded,
                   response_content, error>>
    /\ UNCHANGED obj_vars
    /\ UNCHANGED <<chunk_vars, ingest_vars>>

\* the call is over; the orchestrator is ready for the next one
CallOver ==
    /\ outcome \in {"ok", "error", "raised"}
    /\ op' = "none"
    /\ question' = ""
    /\ limit' = 0
    /\ steps' = 0
    /\ node' = "none"
    /\ chunk_keys' = "none"
    /\ stream_chunk' = "none"
    /\ session' = <<>>
    /\ limit_reached' = FALSE
    /\ agent_result' = None
    /\ prompts' = <<>>
    /\ yielded' = <<>>
    /\ response_content' = <<>>
    /\ outcome' = "none"
    /\ error' = ""
    /\ UNCHANGED obj_vars
    /\ UNCHANGED <<chunk_vars, ingest_vars>>

NextRag ==
    \/ Initialize
    \/ InitializeFails
    \/ CallUninitialized
    \/ StartQuery
    \/ StartQueryStream
    \/ AgentLLMFails
    \/ AgentAnswers
    \/ AgentCallsTool
    \/ AgentOutOfSteps
    \/ ToolsNode
    \/ GraphRecursionError
    \/ ChunkContent
    \/ ChunkKeyError
    \/ QueryReturns
    \/ Summarize
    \/ YieldFragment
    \/ SummaryFails
    \/ SummaryEnds
    \/ CallOver

-----------------------------------------------------------------------------
(* Specifications *)

IdleChunk ==
    /\ text = <<>>
    /\ chunk_size = 1
    /\ overlap = 0
    /\ chunks = <<>>
    /\ cpc = "idle"

\* chunk_text over bounded inputs
ChunkInit == InitChunk /\ IdleIngest /\ IdleRag
SpecChunk == ChunkInit /\ [][ChunkText]_vars

\* one run of create_new_vector_store
IngestInit == IdleChunk /\ InitIngest /\ IdleRag
SpecIngest == IngestInit /\ [][NextIngest]_vars

\* one orchestrator, from construction, and the calls made on it
RagInit == IdleChunk /\ IdleIngest /\ InitRag
SpecRag == RagInit /\ [][NextRag]_vars

\* query_stream calls on an orchestrator initialize() has set up once
Initialized ==
    /\ llm = 1
    /\ rag_chain = 1
    /\ supabase_vs_retriever = 1
    /\ init_calls = 1
    /\ IdleCall

NextStream ==
    \/ StartQueryStream
    \/ AgentLLMFails
    \/ AgentAnswers
    \/ AgentCallsTool
    \/ AgentOutOfSteps
    \/ ToolsNode
    \/ GraphRecursionError
    \/ Summarize
    \/ YieldFragment
    \/ SummaryFails
    \/ SummaryEnds
    \/ CallOver

StreamInit == IdleChunk /\ IdleIngest /\ Initialized
SpecStream == StreamInit /\ [][NextStream]_vars

-----------------------------------------------------------------------------
(* The claims *)

\* the tool rounds RECURSION_LIMIT leaves room for: 5
ToolRounds == (RECURSION_LIMIT - 1) \div 2

\* C1 (as claimed): in query and in query_stream alike, the agent run for
\* one question never makes more tool invocations than the 5 rounds that
\* RECURSION_LIMIT allows.
C1_ToolRoundsCapped ==
    op \in {"query", "query_stream"} => Len(session) <= ToolRounds

\* C2 (as claimed): a call in which the round limit was reached ends as a
\* normal call, never with an error outcome, and (query_stream) its answer
\* is a summary of the evidence the session collected.
C2_RoundLimitIsNormalEnd ==
    (limit_reached /\ outcome # "running") =>
        /\ outcome = "ok"
        /\ ErrorFragments(yielded) = <<>>
        /\ op = "query_stream" =>
              /\ Len(prompts) = 1
              /\ prompts[1].collected_info = transcript(session)

\* the fragments 1..n of a response, in order
FragmentsTo(n) == [k \in 1..n |-> Fragment(k)]

\* C3 (as claimed): a query_stream call that fails, wherever it fails,
\* has yielded exactly one fragment, the error text; a call that succeeds
\* has yielded no error text (and text, when the response carried any).
C3_FailureYieldsOneFragment ==
    (op = "query_stream" /\ outcome \in {"ok", "error"}) =>
        /\ outcome = "ok" => yielded = TextFragments(yielded)
        /\ outcome = "error" => yielded = <<ErrorText(error)>>

\* C3 (amended): a query_stream call that succeeds has yielded exactly the
\* fragments of the summarization response, in order, and no error text; a
\* call that fails has yielded the fragments produced before the failure
\* followed by exactly one error text, so the sequence has length one only
\* when the failure comes before the first fragment (always so when it
\* comes during evidence gathering).
C3_FailureYieldsOneErrorFragmentLast ==
    (op = "query_stream" /\ outcome \in {"ok", "error"}) =>
        /\ outcome = "ok" => yielded = FragmentsTo(Len(yielded))
        /\ outcome = "error" =>
              /\ yielded = Append(FragmentsTo(Len(yielded) - 1), ErrorText(error))
              /\ Len(ErrorFragments(yielded)) = 1
              /\ node # "summarizing" => Len(yielded) = 1

\* C3 witness: the summarization stream failed after fragments were yielded.
C3_FailedAfterFragments ==
    /\ op = "query_stream"
    /\ outcome = "error"
    /\ node = "summarizing"
    /\ Len(yielded) = MaxFragments + 1

\* C4 (as claimed): an initialize() call on an orchestrator that is already
\* initialized changes neither llm, nor rag_chain, nor the global
\* supabase_vs_retriever that the retrieval tool reads.
C4_InitializeIdempotent ==
    [][ (rag_chain # None /\ llm # None /\ init_calls' = init_calls + 1) =>
            /\ llm' = llm
            /\ rag_chain' = rag_chain
            /\ supabase_vs_retriever' = supabase_vs_retriever ]_vars

\* C5: the batches are attempted once each and in order, numbered 1, 2, ...;
\* when the run is over every one of the ceil(M / batch_size) batches has
\* been attempted, whichever of them failed; and the records of every batch
\* whose upsert went through are in the index.
C5_BatchIsolation ==
    ipc \in {"batches", "done"} =>
        /\ \A j \in 1..Len(attempted) : attempted[j].no = j
        /\ i_batch = Len(attempted) * batch_size
        /\ ipc = "done" => Len(attempted) = CeilDiv(Len(data), batch_size)
        /\ \A j \in 1..Len(attempted) :
              attempted[j].ok => Elems(attempted[j].batch) \subseteq index

\* C5 witness: the run is over, a batch failed and a later one went through.
C5_FailedBatchThenLaterBatch ==
    /\ ipc = "done"
    /\ \E j \in 1..Len(attempted), k \in 1..Len(attempted) :
          /\ j < k
          /\ ~attempted[j].ok
          /\ attempted[k].ok
          /\ Elems(attempted[k].batch) \subseteq index

\* the records of a document, in chunk order
doc_records(doc) ==
    LET cs == doc_chunk_text(doc)
    IN  [k \in 1..Len(cs) |-> record(doc, k - 1, cs[k], Len(cs))]

\* the records of the documents that carry a PMID, in document order
RECURSIVE flat_records(_)
flat_records(docs) ==
    IF docs = <<>> THEN <<>>
    ELSE (IF Head(docs).PMID # "" THEN doc_records(Head(docs)) ELSE <<>>)
         \o flat_records(Tail(docs))

submitted == UNION { Elems(attempted[j].batch) : j \in 1..Len(attempted) }

\* C6 (as claimed): when the run is over, whether or not a document was
\* skipped for its missing PMID or an encode call failed on one of its
\* chunks, the records of every other accepted document were submitted.
C6_DocumentFailureIsolated ==
    ipc \in {"done", "aborted"} =>
        \A d \in 1..Len(documents) :
            (documents[d].PMID # "" /\ documents[d].id # embed_failed) =>
                Elems(doc_records(documents[d])) \subseteq submitted

\* C7 (as claimed): chunk_text returns ceil((len - overlap) / (size -
\* overlap)) chunks, the k-th being the window of at most `size` characters
\* at offset (k - 1) * (size - overlap), none empty after strip(); the
\* example text with size 4 and overlap 1 gives ABCD, DEFG, GHIJ.
C7_WindowsAndCount ==
    cpc = "returned" =>
        LET step == chunk_size - overlap
        IN  /\ Len(chunks) = Max(0, CeilDiv(Len(text) - overlap, step))
            /\ \A k \in 1..Len(chunks) :
                  /\ chunks[k] = Slice(text, (k - 1) * step, (k - 1) * step + chunk_size)
                  /\ Len(chunks[k]) <= chunk_size
                  /\ strip(chunks[k]) # <<>>
            /\ (text = ExampleText /\ chunk_size = 4 /\ overlap = 1) =>
                  chunks = << <<"A", "B", "C", "D">>, <<"D", "E", "F", "G">>,
                              <<"G", "H", "I", "J">> >>

\* the windows the loop visits: one per multiple of step below len(text)
NonBlank(w) == strip(w) # <<>>

\* C7 (amended): chunk_text visits ceil(len / (size - overlap)) windows,
\* the k-th being the at most `size` characters at offset (k - 1) * (size -
\* overlap), and returns those that are not blank, in order; so no chunk is
\* empty after strip(), and when no window is blank the count is
\* ceil(len / (size - overlap)). The example text with size 4 and overlap 1
\* gives ABCD, DEFG, GHIJ and a fourth chunk, J.
C7_WindowsEveryStep ==
    cpc = "returned" =>
        LET step == chunk_size - overlap
            W    == CeilDiv(Len(text), step)
            win  == [k \in 1..W |-> Slice(text, (k - 1) * step, (k - 1) * step + chunk_size)]
        IN  /\ chunks = SelectSeq(win, NonBlank)
            /\ \A k \in 1..Len(chunks) :
                  Len(chunks[k]) <= chunk_size /\ strip(chunks[k]) # <<>>
            /\ (\A k \in 1..W : NonBlank(win[k])) => Len(chunks) = W
            /\ (text = ExampleText /\ chunk_size = 4 /\ overlap = 1) =>
                  chunks = << <<"A", "B", "C", "D">>, <<"D", "E", "F", "G">>,
                              <<"G", "H", "I", "J">>, <<"J">> >>

\* C7 witness: the example, with its fourth chunk.
C7_ExampleGivesFourChunks ==
    /\ cpc = "returned"
    /\ text = ExampleText
    /\ chunk_size = 4
    /\ overlap = 1
    /\ Len(chunks) = 4
    /\ chunks[4] = <<"J">>

\* C8 (as claimed): a text shorter than chunk_size gives one chunk, the
\* whole text, when it is not blank, and no chunk when it is.
C8_ShortTextOneChunk ==
    (cpc = "returned" /\ Len(text) < chunk_size) =>
        chunks = IF strip(text) # <<>> THEN <<text>> ELSE <<>>

\* C8 (amended): a text no longer than chunk_size - overlap gives one
\* chunk, the whole text, when it is not blank, and none when it is; a
\* longer text still shorter than chunk_size gives the whole text first
\* (when the text is not blank) and then its suffixes from every further
\* multiple of chunk_size - overlap, the blank ones left out.
C8_ShortTextAndItsSuffixes ==
    (cpc = "returned" /\ Len(text) < chunk_size) =>
        LET step == chunk_size - overlap
            W    == CeilDiv(Len(text), step)
            suf  == [k \in 1..W |-> SubSeq(text, (k - 1) * step + 1, Len(text))]
        IN  /\ strip(text) = <<>> => chunks = <<>>
            /\ (strip(text) # <<>> /\ Len(text) <= step) => chunks = <<text>>
            /\ strip(text) # <<>> => chunks[1] = text
            /\ chunks = SelectSeq(suf, NonBlank)

\* C8 witness: a text shorter than chunk_size that gives two chunks.
C8_ShortTextTwoChunks ==
    /\ cpc = "returned"
    /\ Len(text) < chunk_size
    /\ Len(chunks) >= 2
    /\ chunks[1] = text

\* C9 (as claimed): in query_stream nothing is yielded before the agent run
\* is over; a call issues at most one summarization request, exactly one
\* once it streams, composed from the question and the transcript of every
\* tool query and tool output of the session; and the fragments of a
\* successful call are those of that response.
C9_OneSummaryOfTheEvidence ==
    op = "query_stream" =>
        /\ yielded # <<>> => (node = "summarizing" \/ outcome = "error")
        /\ Len(prompts) <= 1
        /\ node = "summarizing" =>
              /\ Len(prompts) = 1
              /\ prompts[1] = summarization_prompt(question, transcript(session))
        /\ outcome = "ok" => yielded = FragmentsTo(Len(yielded))

\* C10: when the run is over the data are the records of the accepted
\* documents in document order then chunk order; ceil(M / batch_size)
\* batches were attempted, each of batch_size records but the last, which
\* has between 1 and batch_size; and the batches, end to end, are the data.
C10_SequentialBatches ==
    ipc = "done" =>
        LET M == Len(data)
            N == Len(attempted)
        IN  /\ data = flat_records(documents)
            /\ N = CeilDiv(M, batch_size)
            /\ \A j \in 1..(N - 1) : Len(attempted[j].batch) = batch_size
            /\ N > 0 => Len(attempted[N].batch) \in 1..batch_size
            /\ Concat([j \in 1..N |-> attempted[j].batch]) = data

\* C10 witness: two documents of 3 and 5 chunks, batch size 4: two batches
\* of 4 records, the first spanning both documents.
C10_ThreeAndFiveChunksInTwoBatches ==
    /\ ipc = "done"
    /\ batch_size = 4
    /\ Len(documents) = 2
    /\ Len(doc_chunk_text(documents[1])) = 3
    /\ Len(doc_chunk_text(documents[2])) = 5
    /\ Len(attempted) = 2
    /\ Len(attempted[1].batch) = 4
    /\ Len(attempted[2].batch) = 4
    /\ attempted[1].batch[4].metadata.original_id = documents[2].id

=============================================================================
